---- MODULE Spec2Model ----
(***************************************************************************)
(* Model of the jqPlot funnel renderer (src/plugins/jqplot.funnelRenderer.js): *)
(* series initialisation (sorting), the grid-data normalisation, the layout  *)
(* solver of draw, the hit tester checkIntersection and the mouse handlers   *)
(* that keep the highlight state.                                            *)
(*                                                                         *)
(* JavaScript Numbers are modelled as IEEE 754 double precision values: a    *)
(* finite Number is the record [k |-> "num", s |-> sign, e |-> exponent,     *)
(* m |-> mantissa] of the value s * m * 2^e, where the mantissa is an        *)
(* integer below 2^53 held as 4 limbs of 14 bits. NaN, +Infinity and         *)
(* -Infinity are values of their own, +0 and -0 are kept apart, and          *)
(* `undefined` (an array hole or an unset field) is kept apart from NaN      *)
(* until arithmetic turns it into NaN. Every operation computes its exact    *)
(* result and rounds it to the nearest Number, ties to even, with gradual    *)
(* underflow and overflow to Infinity, as the operations on doubles do.      *)
(***************************************************************************)
EXTENDS Integers, Sequences, FiniteSets, TLC

-----------------------------------------------------------------------------
(* Bounds of the model.                                                      *)

\* longest input data sequence
MaxN == 3
\* number of draw cycles followed
MaxDraws == 2

-----------------------------------------------------------------------------
(* JavaScript Number arithmetic.                                             *)

\* literals are written in thousandths: Num(v) is the Number v / SCALE
SCALE == 1000
\* a finite Number is s * M * 2^e for a sign s, an integer M below 2^53 held as
\* Limbs limbs of LimbBits bits, most significant first, and an exponent e
LimbBits == 14
Base == 16384
Limbs == 4
MantBits == 53
\* the first limb of the mantissa 2^52, the smallest of a normal Number
TopLimb == 1024
\* largest and smallest exponent: Number.MAX_VALUE is (2^53 - 1) * 2^971,
\* Number.MIN_VALUE is 2^-1074; the Numbers below 2^52 * 2^-1074 are the
\* subnormal ones, with mantissas below 2^52
EMax == 971
EMin == -1074

ZeroMant == <<0, 0, 0, 0>>
MaxMant == <<(2 * TopLimb) - 1, Base - 1, Base - 1, Base - 1>>
NaN == [k |-> "nan", s |-> 0, e |-> 0, m |-> ZeroMant]
PosInf == [k |-> "inf", s |-> 1, e |-> 0, m |-> ZeroMant]
Undefined == [k |-> "undef", s |-> 0, e |-> 0, m |-> ZeroMant]
\* +0 and -0
Zero == [k |-> "num", s |-> 1, e |-> EMin, m |-> ZeroMant]
NegZero == [k |-> "num", s |-> -1, e |-> EMin, m |-> ZeroMant]
ZeroOf(s) == IF s < 0 THEN NegZero ELSE Zero

IsNum(a) == a.k = "num"
IsInf(a) == a.k = "inf"
\* ToNumber(undefined) is NaN
IsNaN(a) == a.k = "nan" \/ a.k = "undef"
IsFinite(a) == a.k = "num"
IsZero(a) == a.k = "num" /\ a.m = ZeroMant

AbsI(i) == IF i < 0 THEN -i ELSE i
MaxI(i, j) == IF i >= j THEN i ELSE j
\* the sign of a non-NaN Number: -1, 0, 1
Sgn(a) == IF IsZero(a) THEN 0 ELSE a.s
InfOf(s) == [PosInf EXCEPT !.s = IF s < 0 THEN -1 ELSE 1]

\* the Number s * m * 2^e of a mantissa m; past EMax it is +-Infinity
Pack(s, m, e) ==
    IF e > EMax THEN InfOf(s)
    ELSE [k |-> "num", s |-> s, e |-> e, m |-> m]

Pow2 == <<1, 2, 4, 8, 16, 32, 64, 128, 256, 512, 1024, 2048, 4096, 8192, 16384>>
TwoTo(r) == Pow2[r + 1]
\* the number of bits of x, 1 <= x < 2^15
BitLen(x) ==
    IF x >= 128
    THEN (IF x >= 2048
          THEN (IF x >= 8192 THEN (IF x >= 16384 THEN 15 ELSE 14)
                ELSE IF x >= 4096 THEN 13 ELSE 12)
          ELSE (IF x >= 512 THEN (IF x >= 1024 THEN 11 ELSE 10)
                ELSE IF x >= 256 THEN 9 ELSE 8))
    ELSE (IF x >= 8
          THEN (IF x >= 32 THEN (IF x >= 64 THEN 7 ELSE 6)
                ELSE IF x >= 16 THEN 5 ELSE 4)
          ELSE (IF x >= 2 THEN (IF x >= 4 THEN 3 ELSE 2) ELSE 1))

\* the limb of L at index i, 0 past its end
LimbAt(L, i) == IF i <= Len(L) THEN L[i] ELSE 0
\* the limb of L that is i limbs above its last one, 0 outside L
LimbUp(L, i) == IF i >= 0 /\ i < Len(L) THEN L[Len(L) - i] ELSE 0
\* the bit of L that is pos bits above its last one
BitAt(L, pos) == (LimbUp(L, pos \div LimbBits) \div TwoTo(pos % LimbBits)) % 2
\* some bit of L below the one pos bits above its last one is set
AnyBitBelow(L, pos) ==
    \/ LimbUp(L, pos \div LimbBits) % TwoTo(pos % LimbBits) # 0
    \/ \E i \in 1..Len(L) : i > Len(L) - (pos \div LimbBits) /\ L[i] # 0
\* limb p (from the last one, 0) of L moved down by a limbs and r bits
ShiftedLimb(L, p, a, r) ==
    (LimbUp(L, p + a) \div TwoTo(r))
        + ((LimbUp(L, p + a + 1) % TwoTo(r)) * TwoTo(LimbBits - r))
\* the last n limbs of L moved down by sh bits (up when sh is negative); the
\* bits moved below the last limb are dropped
ShiftRight(L, sh, n) ==
    [p \in 1..n |-> ShiftedLimb(L, n - p, sh \div LimbBits, sh % LimbBits)]

\* the limbs of up to eight columns (any integers): from the last column to
\* the first, every column is brought into 0 .. Base - 1 and its excess
\* carried into the column before it; the first limb of the result is the
\* last carry (negative when the columns stand for a negative number)
Carried(cols) ==
    LET t8 == LimbAt(cols, 8)
        t7 == LimbAt(cols, 7) + (t8 \div Base)
        t6 == LimbAt(cols, 6) + (t7 \div Base)
        t5 == LimbAt(cols, 5) + (t6 \div Base)
        t4 == LimbAt(cols, 4) + (t5 \div Base)
        t3 == cols[3] + (t4 \div Base)
        t2 == cols[2] + (t3 \div Base)
        t1 == cols[1] + (t2 \div Base)
    IN SubSeq(<<t1 \div Base, t1 % Base, t2 % Base, t3 % Base, t4 % Base,
                t5 % Base, t6 % Base, t7 % Base, t8 % Base>>, 1, Len(cols) + 1)

RECURSIVE FirstNonZero(_, _)
\* the index of the first limb of L from j on that is not 0, or 0
FirstNonZero(L, j) ==
    IF j > Len(L) THEN 0
    ELSE IF L[j] # 0 THEN j
    ELSE FirstNonZero(L, j + 1)
\* the mantissa m (below MaxMant) with one unit added in its last place
Incremented(m) ==
    IF m[4] < Base - 1 THEN <<m[1], m[2], m[3], m[4] + 1>>
    ELSE IF m[3] < Base - 1 THEN <<m[1], m[2], m[3] + 1, 0>>
    ELSE IF m[2] < Base - 1 THEN <<m[1], m[2] + 1, 0, 0>>
    ELSE <<m[1] + 1, 0, 0, 0>>
\* the Number of the mantissa m, moved up to the next Number when up; past the
\* largest mantissa comes the smallest one of the next exponent
Rounded(s, m, up, e) ==
    IF ~up THEN Pack(s, m, e)
    ELSE IF m = MaxMant THEN Pack(s, <<TopLimb, 0, 0, 0>>, e + 1)
    ELSE Pack(s, Incremented(m), e)
\* round to nearest, ties to even: the bits of L dropped by moving it down by
\* sh bits are more than half a unit, or half a unit with the kept part odd
RoundsUp(L, sh) ==
    /\ sh >= 1
    /\ BitAt(L, sh - 1) = 1
    /\ (AnyBitBelow(L, sh - 1) \/ BitAt(L, sh) = 1)
\* the Number nearest to s * L * 2^e whose exponent is e + sh
ShiftedBy(s, L, sh, e) ==
    Rounded(s, ShiftRight(L, sh, Limbs), RoundsUp(L, sh), e + sh)
\* the Number nearest to s * L * 2^e, for limbs L whose first non-zero limb is
\* at index j: MantBits bits are kept, fewer when the exponent would fall
\* below EMin
NormFrom(s, L, j, e) ==
    IF j = 0 THEN ZeroOf(s)
    ELSE ShiftedBy(s, L,
                   MaxI((LimbBits * (Len(L) - j)) + BitLen(L[j]) - MantBits, EMin - e),
                   e)
Norm(s, L, e) == NormFrom(s, L, FirstNonZero(L, 1), e)

\* an integer literal n of the source
Lit(n) ==
    Norm(IF n < 0 THEN -1 ELSE 1,
         <<AbsI(n) \div (Base * Base), (AbsI(n) \div Base) % Base, AbsI(n) % Base>>, 0)

Neg(a) == IF IsNum(a) THEN [a EXCEPT !.s = -a.s]
          ELSE IF IsNaN(a) THEN NaN ELSE InfOf(-a.s)

\* the columns of sa * A + b, for eight limbs A that line up with the
\* mantissa of b at their end
SumColumns(A, sa, b) ==
    <<sa * A[1], sa * A[2], sa * A[3], sa * A[4],
      (sa * A[5]) + (b.s * b.m[1]), (sa * A[6]) + (b.s * b.m[2]),
      (sa * A[7]) + (b.s * b.m[3]), (sa * A[8]) + (b.s * b.m[4])>>
\* the Number of the limbs L (with the carry limb in front) of the columns
\* cols, or of the limbs of their negation when L stands for a negative number
SignedNorm(L, cols, e) ==
    Norm(IF L[1] < 0 THEN -1 ELSE 1,
         IF L[1] < 0
         THEN Carried(<<-cols[1], -cols[2], -cols[3], -cols[4], -cols[5], -cols[6],
                        -cols[7], -cols[8]>>)
         ELSE L,
         e)
SignedSum(cols, e) == SignedNorm(Carried(cols), cols, e)
\* a + b for finite non-zero a, b with a.e >= b.e: the exact sum, rounded; a b
\* below a quarter of the last place of a leaves a
AddAligned(a, b) ==
    IF a.e - b.e > MantBits + 2 THEN a
    ELSE SignedSum(SumColumns(ShiftRight(a.m, b.e - a.e, 2 * Limbs), a.s, b), b.e)
\* the sum of two finite Numbers
AddFinite(a, b) ==
    IF a.m = ZeroMant
    THEN (IF b.m = ZeroMant THEN (IF a.s < 0 /\ b.s < 0 THEN NegZero ELSE Zero) ELSE b)
    ELSE IF b.m = ZeroMant THEN a
    ELSE AddAligned(IF a.e >= b.e THEN a ELSE b, IF a.e >= b.e THEN b ELSE a)

Add(a, b) ==
    IF a.k = "num" /\ b.k = "num" THEN AddFinite(a, b)
    ELSE IF IsNaN(a) \/ IsNaN(b) THEN NaN
    ELSE IF IsInf(a) /\ IsInf(b) THEN (IF a.s = b.s THEN a ELSE NaN)
    ELSE IF IsInf(a) THEN a
    ELSE b

Sub(a, b) == Add(a, Neg(b))

\* the columns of the product of two mantissas
ProductColumns(x, y) ==
    <<x[1] * y[1],
      (x[1] * y[2]) + (x[2] * y[1]),
      (x[1] * y[3]) + (x[2] * y[2]) + (x[3] * y[1]),
      (x[1] * y[4]) + (x[2] * y[3]) + (x[3] * y[2]) + (x[4] * y[1]),
      (x[2] * y[4]) + (x[3] * y[3]) + (x[4] * y[2]),
      (x[3] * y[4]) + (x[4] * y[3]),
      x[4] * y[4]>>
\* the product of two finite Numbers: the exact product, rounded
MulFinite(a, b) ==
    IF a.m = ZeroMant \/ b.m = ZeroMant THEN ZeroOf(a.s * b.s)
    ELSE Norm(a.s * b.s, Carried(ProductColumns(a.m, b.m)), a.e + b.e)

Mul(a, b) ==
    IF a.k = "num" /\ b.k = "num" THEN MulFinite(a, b)
    ELSE IF IsNaN(a) \/ IsNaN(b) THEN NaN
    ELSE IF Sgn(a) = 0 \/ Sgn(b) = 0 THEN NaN
    ELSE InfOf(a.s * b.s)

\* long division of mantissas. The divisor v has Limbs limbs, the first one
\* >= Base / 2; r holds Limbs + 1 limbs of the remainder, r < v * Base.
\* the quotient limb estimated from the two leading limbs of r and the
\* leading limb of v, at most 2 too large
QHatOf(q) == IF q > Base - 1 THEN Base - 1 ELSE q
\* the estimate lowered by one when the second limb of v shows it too large
QHatTest(q, rem, r3, v2) ==
    IF rem < Base /\ q * v2 > (rem * Base) + r3 THEN q - 1 ELSE q
QHat(r, v) ==
    LET n == (r[1] * Base) + r[2]
        q == QHatOf(n \div v[1])
    IN QHatTest(q, n - (q * v[1]), r[3], v[2])
\* r - q * v, as limbs with the carry limb in front
Remainder(r, v, q) ==
    Carried(<<r[1], r[2] - (q * v[1]), r[3] - (q * v[2]), r[4] - (q * v[3]),
              r[5] - (q * v[4])>>)
\* the limbs Q of a quotient followed by a limb that is 1 when the division
\* left a remainder r: what is left tells a quotient halfway between two
\* Numbers from one above the halfway point
WithSticky(Q, r) == Append(Q, IF r = <<0, 0, 0, 0, 0>> THEN 0 ELSE 1)
RECURSIVE DivDigits(_, _, _, _, _, _)
RECURSIVE DivLimb(_, _, _, _, _, _, _, _)
\* one limb q of the quotient, with rem = r - q * v: lowered while rem is
\* negative, then appended to the quotient Q
DivLimb(s, r, v, q, rem, j, Q, e) ==
    IF rem[1] < 0 THEN DivLimb(s, r, v, q - 1, Remainder(r, v, q - 1), j, Q, e)
    ELSE DivDigits(s, <<rem[3], rem[4], rem[5], rem[6], 0>>, v, j - 1,
                   Append(Q, q), e)
\* long division: j more limbs of the quotient Q, from the remainder r
DivDigits(s, r, v, j, Q, e) ==
    IF j = 0 THEN Norm(s, WithSticky(Q, r), e - LimbBits)
    ELSE LET q == QHat(r, v)
         IN DivLimb(s, r, v, q, Remainder(r, v, q), j, Q, e)
\* the mantissa m times the factor f, as Limbs + 1 limbs
Scaled(m, f) == Carried(<<m[1] * f, m[2] * f, m[3] * f, m[4] * f>>)
\* x / y on mantissas of MantBits bits, both scaled by f to bring the
\* divisor's first limb to Base / 2 or more: Limbs + 1 limbs of
\* x * Base^Limbs / y
DivScaled(s, x, y, f, e) ==
    DivDigits(s, Scaled(x, f), Tail(Scaled(y, f)), Limbs + 1, <<>>,
              e - (Limbs * LimbBits))
\* the bits a mantissa is short of MantBits bits
Lead(m, j) == MantBits - ((LimbBits * (Limbs - j)) + BitLen(m[j]))
\* a finite non-zero Number with its mantissa moved up to MantBits bits (a
\* subnormal one has fewer) and its exponent lowered to match
MovedUp(a, k) == [a EXCEPT !.m = ShiftRight(a.m, -k, Limbs), !.e = a.e - k]
Normal(a) ==
    IF a.m[1] >= TopLimb THEN a ELSE MovedUp(a, Lead(a.m, FirstNonZero(a.m, 1)))
DivNormal(a, b) ==
    DivScaled(a.s * b.s, a.m, b.m, Base \div (2 * TopLimb), a.e - b.e)
\* the quotient of two finite non-zero Numbers, rounded to the nearest Number
DivFinite(a, b) == DivNormal(Normal(a), Normal(b))

Div(a, b) ==
    IF a.k = "num" /\ b.k = "num"
    THEN (IF b.m = ZeroMant THEN (IF a.m = ZeroMant THEN NaN ELSE InfOf(a.s * b.s))
          ELSE IF a.m = ZeroMant THEN ZeroOf(a.s * b.s)
          ELSE DivFinite(a, b))
    ELSE IF IsNaN(a) \/ IsNaN(b) THEN NaN
    ELSE IF IsInf(a) THEN (IF IsInf(b) THEN NaN ELSE InfOf(a.s * b.s))
    ELSE ZeroOf(a.s * b.s)

\* the Number v / SCALE of an integer v
Num(v) == Div(Lit(v), Lit(SCALE))

Abs(a) == IF a.k = "num" THEN (IF a.s < 0 THEN [a EXCEPT !.s = 1] ELSE a)
          ELSE IF IsNaN(a) THEN NaN ELSE PosInf

RECURSIVE MantGt(_, _, _)
\* x > y on mantissas, from limb i on
MantGt(x, y, i) ==
    IF i > Limbs THEN FALSE
    ELSE IF x[i] # y[i] THEN x[i] > y[i]
    ELSE MantGt(x, y, i + 1)
\* |a| > |b| on finite Numbers
MagGt(a, b) == a.e > b.e \/ (a.e = b.e /\ MantGt(a.m, b.m, 1))
\* a > b on finite Numbers: by sign, then by exponent, then by mantissa; +0
\* and -0 are equal
GtFinite(a, b) ==
    IF a.s > 0 THEN (IF b.s > 0 THEN MagGt(a, b)
                     ELSE a.m # ZeroMant \/ b.m # ZeroMant)
    ELSE (b.s < 0 /\ MagGt(b, a))
\* a > b; false when either side is NaN
Gt(a, b) ==
    IF a.k = "num" /\ b.k = "num" THEN GtFinite(a, b)
    ELSE IF IsNaN(a) \/ IsNaN(b) THEN FALSE
    ELSE IF IsInf(a) /\ IsInf(b) THEN a.s > b.s
    ELSE IF IsInf(a) THEN a.s > 0
    ELSE b.s < 0
\* a == b on Numbers; false when either side is NaN, true for +0 and -0
NumEq(a, b) == ~IsNaN(a) /\ ~IsNaN(b) /\ (a = b \/ (IsZero(a) /\ IsZero(b)))
Ge(a, b) == Gt(a, b) \/ NumEq(a, b)
Le(a, b) == Ge(b, a)
Lt(a, b) == Gt(b, a)

-----------------------------------------------------------------------------
(* JavaScript values other than Numbers.                                     *)

\* null, for a field that holds an index or null
Null == -1
\* undefined, for a field that holds an index or is unset
UndefIdx == -2
\* s.index of the funnel series (checkIntersection reads plot.series[0])
SeriesIndex == 0

\* arr[i] of a JavaScript array (i counts from 0); a hole or an index past the
\* end reads as undefined
Get(arr, i) == IF i >= 0 /\ i < Len(arr) THEN arr[i + 1] ELSE Undefined
\* arr[i] = v; writing past the end leaves holes
SetAt(arr, i, v) ==
    IF i < Len(arr) THEN [arr EXCEPT ![i + 1] = v]
    ELSE [j \in 1..(i + 1) |-> IF j <= Len(arr) THEN arr[j]
                                ELSE IF j = i + 1 THEN v ELSE Undefined]
\* new Array(n): n holes
NewArray(n) == [j \in 1..n |-> Undefined]

-----------------------------------------------------------------------------
(* The state: the fields of the funnel series `s`, of the plot, and what the *)
(* last call did.                                                            *)

VARIABLES
    pc,                  \* where the host is in the plot's life cycle
    options,             \* the user's series options, as passed to init
    legendInfo,          \* options.legendInfo of draw
    data,                \* s.data
    _unorderedData,      \* s._unorderedData
    padding,             \* s.padding
    sectionMargin,       \* s.sectionMargin
    widthRatio,          \* s.widthRatio
    highlightMouseOver,  \* s.highlightMouseOver
    highlightMouseDown,  \* s.highlightMouseDown
    _highlightedPoint,   \* s._highlightedPoint
    _bases,              \* s._bases
    _atot,               \* s._atot
    _areas,              \* s._areas
    _lengths,            \* s._lengths
    _angle,              \* s._angle
    _length,             \* s._length
    gridData,            \* s.gridData
    gd,                  \* the array makeGridData returned, draw's argument
    _vertices,           \* s._vertices
    funnelRenderer,      \* plot.plugins.funnelRenderer
    triggered,           \* the events the last call triggered on plot.target
    outcome,             \* how the last call ended, and what the hit test gave
    lastMove,            \* the latest mouse event: whether it was a move, and
                         \* the section the move was over
    draws                \* number of draws so far

vars == <<pc, options, legendInfo, data, _unorderedData, padding, sectionMargin,
          widthRatio, highlightMouseOver, highlightMouseDown, _highlightedPoint,
          _bases, _atot, _areas, _lengths, _angle, _length, gridData, gd,
          _vertices, funnelRenderer, triggered, outcome, lastMove, draws>>

seriesOptions == <<padding, sectionMargin, widthRatio, highlightMouseOver,
                   highlightMouseDown>>
geometry == <<_bases, _atot, _areas, _lengths, _angle, _length, _vertices>>

\* the outcome of a call that takes no pointer position: it returned (error
\* "none"), hit-tested nothing; solver holds, for a draw, the count and err
\* each section's while loop ended with
NoCall(c) == [call |-> c, thrown |-> FALSE, error |-> "none", hit |-> FALSE,
              pidx |-> Null, gridpos |-> <<>>, solver |-> <<>>]

\* the latest mouse event was no move (or there was none); after a move,
\* moved is TRUE and pidx the section the hit test placed the move over
\* (Null: over no section)
NoMove == [moved |-> FALSE, pidx |-> Null]

\* canvas size of the series canvas, in pixels
CanvasW == 48
CanvasH == 48

-----------------------------------------------------------------------------
(* Inputs.                                                                   *)

\* the data sequences of n points with values in V: point i carries the i-th
\* label
DataOfLen(n, V) ==
    { [i \in 1..n |-> <<<<"A", "B", "C", "D", "E">>[i], vals[i]>>] : vals \in [1..n -> V] }
DataInputs(V) == UNION { DataOfLen(n, V) : n \in 1..MaxN }

UniformPadding(p) == [top |-> p, right |-> p, bottom |-> p, left |-> p]

\* a boolean option is "true" or "false" as the user set it, or "unset"
Truthy(o) == o = "true"

\* the options objects with widthRatio in W, sectionMargin in M, the four
\* sides of padding all set to one value of P, highlightMouseOver in O and
\* highlightMouseDown in D; an option the user left out is undefined
UserOptions(W, M, P, O, D) ==
    [widthRatio : W, sectionMargin : M, padding : {UniformPadding(p) : p \in P},
     highlightMouseOver : O, highlightMouseDown : D]

NoLegend == [placement |-> "outside", location |-> "ne",
             width |-> Lit(0), height |-> Lit(0),
             xoffset |-> Lit(0), yoffset |-> Lit(0)]
InsideLegend(loc) == [placement |-> "inside", location |-> loc,
                      width |-> Lit(3), height |-> Lit(3),
                      xoffset |-> Lit(1), yoffset |-> Lit(1)]

\* the state after construction, before init: the series holds the user's data
\* (any sequence in D), and nothing else is set
InitWith(D, Opts, Legends) ==
    /\ pc = "new"
    /\ data \in D
    /\ options \in Opts
    /\ legendInfo \in Legends
    /\ _unorderedData = <<>>
    /\ padding = UniformPadding(Undefined)
    /\ sectionMargin = Undefined
    /\ widthRatio = Undefined
    /\ highlightMouseOver = FALSE
    /\ highlightMouseDown = FALSE
    /\ _highlightedPoint = UndefIdx
    /\ _bases = <<>>
    /\ _atot = Undefined
    /\ _areas = <<>>
    /\ _lengths = <<>>
    /\ _angle = Undefined
    /\ _length = Undefined
    /\ gridData = <<>>
    /\ gd = <<>>
    /\ _vertices = <<>>
    /\ funnelRenderer = [defined |-> FALSE, highlightedSeriesIndex |-> UndefIdx]
    /\ triggered = <<>>
    /\ outcome = NoCall("new")
    /\ lastMove = NoMove
    /\ draws = 0

-----------------------------------------------------------------------------
(* init: defaults, option merge, sort.                                       *)

\* a comparator that orders by ascending value
ComparePointsAscending(a, b) == Sub(a[2], b[2])
\* the comparator of line 146: b[1] - a[1]
ComparePoints(a, b) == Sub(b[2], a[2])

\* Array.prototype.sort is the engine's: V8 sorts an array of fewer than 64
\* elements by finding the run it starts with and inserting the other
\* elements into it by binary search; it reads the comparator's result v as
\* v < 0 or not, a NaN counting as 0.
\* order < 0 for order = comparefn(a, b)
Before(a, b) == Lt(ComparePoints(a, b), Lit(0))

RECURSIVE RunEnd(_, _, _)
\* the loop of CountAndMakeRun at the element idx: the index of the last
\* element of the run the array starts with; a descending run goes on while
\* order < 0, another one while order >= 0
RunEnd(d, descending, idx) ==
    IF idx > Len(d) THEN Len(d)
    ELSE IF Before(d[idx], d[idx - 1]) # descending THEN idx - 1
    ELSE RunEnd(d, descending, idx + 1)

\* CountAndMakeRun: the length of the run the array starts with, and the
\* array with that run reversed when it is a descending one
CountAndMakeRun(d) ==
    LET descending == Before(d[2], d[1])
        n == RunEnd(d, descending, 3)
    IN [run |-> n,
        d |-> [i \in 1..Len(d) |-> IF descending /\ i <= n THEN d[n + 1 - i] ELSE d[i]]]

RECURSIVE InsertionPoint(_, _, _, _)
\* the binary search of BinaryInsertionSort for the pivot between left and
\* right: right = mid when order < 0, left = mid + 1 otherwise
InsertionPoint(d, pivot, left, right) ==
    IF left >= right THEN left
    ELSE IF Before(pivot, d[left + ((right - left) \div 2)])
         THEN InsertionPoint(d, pivot, left, left + ((right - left) \div 2))
         ELSE InsertionPoint(d, pivot, left + ((right - left) \div 2) + 1, right)

\* the array with the element at start moved to the index left <= start
MovedTo(d, start, left) ==
    [i \in 1..Len(d) |-> IF i < left \/ i > start THEN d[i]
                         ELSE IF i = left THEN d[start]
                         ELSE d[i - 1]]

RECURSIVE BinaryInsertionSort(_, _)
\* the elements from start on inserted, one after the other, into the sorted
\* elements before them
BinaryInsertionSort(d, start) ==
    IF start > Len(d) THEN d
    ELSE BinaryInsertionSort(MovedTo(d, start, InsertionPoint(d, d[start], 1, start)),
                             start + 1)

\* this.data.sort(function (a, b) { return b[1] - a[1]; })
SortData(d) ==
    IF Len(d) < 2 THEN d
    ELSE BinaryInsertionSort(CountAndMakeRun(d).d, CountAndMakeRun(d).run + 1)

\* the value of highlightMouseOver after lines 123-128: the default true, the
\* user's value when given, false when the user asked for highlightMouseDown
\* alone
MergedMouseOver(o) ==
    IF Truthy(o.highlightMouseDown) /\ o.highlightMouseOver = "unset" THEN FALSE
    ELSE IF o.highlightMouseOver = "unset" THEN TRUE
    ELSE Truthy(o.highlightMouseOver)
\* the options object after lines 124-126: init writes highlightMouseOver =
\* false into the object it was given when the user asked for
\* highlightMouseDown and left highlightMouseOver unset
OptionsAfterInit(o) ==
    IF Truthy(o.highlightMouseDown) /\ o.highlightMouseOver = "unset"
    THEN [o EXCEPT !.highlightMouseOver = "false"]
    ELSE o

\* a field after $.extend(true, this, options): the default of lines 86-119
\* unless the options give a value (extend skips what is undefined)
Merged(v, default) == IF v.k = "undef" THEN default ELSE v
\* the deep extend merges this.padding side by side, over {top: 20, right: 20,
\* bottom: 20, left: 20}; highlightMouseDown defaults to false
init ==
    /\ pc = "new"
    /\ pc' = "init"
    /\ padding' = [top |-> Merged(options.padding.top, Lit(20)),
                   right |-> Merged(options.padding.right, Lit(20)),
                   bottom |-> Merged(options.padding.bottom, Lit(20)),
                   left |-> Merged(options.padding.left, Lit(20))]
    /\ sectionMargin' = Merged(options.sectionMargin, Lit(6))
    /\ widthRatio' = Merged(options.widthRatio, Div(Lit(2), Lit(10)))
    /\ highlightMouseOver' = MergedMouseOver(options)
    /\ highlightMouseDown' = Truthy(options.highlightMouseDown)
    /\ _highlightedPoint' = Null
    /\ _bases' = <<>>
    /\ _areas' = <<>>
    /\ _lengths' = <<>>
    /\ _unorderedData' = data
    /\ data' = SortData(data)
    /\ triggered' = <<>>
    /\ options' = OptionsAfterInit(options)
    /\ outcome' = NoCall("init")
    /\ UNCHANGED <<legendInfo, lastMove, _atot, _angle, _length, gridData, gd, _vertices,
                   funnelRenderer, draws>>

\* a postInit that leaves highlightMouseDown as init set it
postInitKeepsMouseDown ==
    /\ pc = "init"
    /\ pc' = "idle"
    /\ triggered' = <<>>
    /\ outcome' = NoCall("postInit")
    /\ UNCHANGED <<options, legendInfo, lastMove, data, _unorderedData, seriesOptions, _highlightedPoint,
                   geometry, gridData, gd, funnelRenderer, draws>>

\* postInit hook of the plot: mouse-over highlighting switches mouse-down
\* highlighting off; binds the mouseout handler
postInit ==
    /\ pc = "init"
    /\ pc' = "idle"
    /\ highlightMouseDown' = IF highlightMouseOver THEN FALSE ELSE highlightMouseDown
    /\ triggered' = <<>>
    /\ outcome' = NoCall("postInit")
    /\ UNCHANGED <<options, legendInfo, lastMove, data, _unorderedData, padding, sectionMargin, widthRatio,
                   highlightMouseOver, _highlightedPoint, geometry, gridData, gd,
                   funnelRenderer, draws>>

-----------------------------------------------------------------------------
(* setGridData / makeGridData: the weights.                                  *)

RECURSIVE SumValues(_, _)
\* sum += data[i][1], from the left
SumValues(d, acc) ==
    IF d = <<>> THEN acc ELSE SumValues(Tail(d), Add(acc, Head(d)[2]))

RECURSIVE RunningSums(_, _)
\* the sums of the first 1, 2, ... values of d
RunningSums(d, acc) ==
    IF d = <<>> THEN <<>>
    ELSE <<Add(acc, Head(d)[2])>> \o RunningSums(Tail(d), Add(acc, Head(d)[2]))
\* every value divided by the sum accumulated so far (the division done
\* inside the summing loop)
NormalizedByRunningSum(d) ==
    LET sums == RunningSums(d, Lit(0))
    IN [i \in 1..Len(d) |-> <<d[i][1], Div(d[i][2], sums[i])>>]

\* td: every point with its value divided by the sum
Normalized(d) ==
    LET sum == SumValues(d, Lit(0))
    IN [i \in 1..Len(d) |-> <<d[i][1], Div(d[i][2], sum)>>]

setGridData ==
    /\ pc = "idle"
    /\ draws < MaxDraws
    /\ pc' = "setGridData"
    /\ gridData' = Normalized(data)
    /\ _bases' = NewArray(Len(data) + 1)
    /\ _lengths' = NewArray(Len(data))
    /\ triggered' = <<>>
    /\ outcome' = NoCall("setGridData")
    /\ UNCHANGED <<options, legendInfo, lastMove, data, _unorderedData, seriesOptions, _highlightedPoint,
                   _atot, _areas, _angle, _length, gd, _vertices, funnelRenderer,
                   draws>>

makeGridData ==
    /\ pc = "setGridData"
    /\ pc' = "makeGridData"
    /\ gd' = Normalized(data)
    /\ _bases' = NewArray(Len(data) + 1)
    /\ _lengths' = NewArray(Len(data))
    /\ triggered' = <<>>
    /\ outcome' = NoCall("makeGridData")
    /\ UNCHANGED <<options, legendInfo, lastMove, data, _unorderedData, seriesOptions, _highlightedPoint,
                   _atot, _areas, _angle, _length, gridData, _vertices,
                   funnelRenderer, draws>>

-----------------------------------------------------------------------------
(* draw: the layout solver.                                                  *)

\* the Number s * m * 2^e of a 53-bit mantissa m given by its limbs
Dbl(s, m, e) == [k |-> "num", s |-> s, e |-> e, m |-> m]

\* Math.atan and Math.tan are the engine's: V8 and SpiderMonkey compute them by
\* the fdlibm algorithms (s_atan.c, s_tan.c, k_tan.c, e_rem_pio2.c), in Number
\* arithmetic, and so do the operators below.
\* atanhi: atan(0.5), atan(1), atan(1.5) and atan(Infinity) = pi/2 as Numbers
AtanHi ==
    <<Dbl(1, <<1899, 1648, 5510, 15183>>, -54),
      Dbl(1, <<1608, 8117, 4368, 11544>>, -53),
      Dbl(1, <<2012, 12477, 2567, 13979>>, -53),
      Dbl(1, <<1608, 8117, 4368, 11544>>, -52)>>
\* atanlo: what the rounding of atanhi left off
AtanLo ==
    <<Dbl(1, <<1674, 14322, 2237, 9698>>, -108),
      Dbl(1, <<1129, 8803, 3153, 7175>>, -107),
      Dbl(1, <<1025, 14471, 11203, 3005>>, -108),
      Dbl(1, <<1129, 8803, 3153, 7175>>, -106)>>
\* aT: the coefficients of the series of atan, 0.333333333333329318,
\* -0.199999999998764832, 0.142857142725034664, -0.111111104054623558,
\* 0.0909088713343650656, -0.0769187620504482999, 0.0666107313738753121,
\* -0.0583357013379057349, 0.0497687799461593236, -0.0365315727442169155,
\* 0.0162858201153657824
AtanCoeff ==
    <<Dbl(1, <<1365, 5461, 5461, 5389>>, -54),
      Dbl(-1, <<1638, 6553, 9827, 11204>>, -55),
      Dbl(1, <<1170, 4681, 2050, 1023>>, -55),
      Dbl(-1, <<1820, 7279, 14476, 5745>>, -56),
      Dbl(1, <<1489, 7388, 5424, 8302>>, -56),
      Dbl(-1, <<1260, 3882, 15826, 6765>>, -56),
      Dbl(1, <<1091, 5738, 832, 15697>>, -56),
      Dbl(-1, <<1911, 8917, 2939, 15770>>, -57),
      Dbl(1, <<1630, 13490, 4568, 3563>>, -57),
      Dbl(-1, <<1197, 1090, 12713, 11311>>, -57),
      Dbl(1, <<1067, 5038, 3211, 6673>>, -58)>>
\* T: the coefficients of the series of tan, 0.333333333333334092,
\* 0.133333333333201243, 0.0539682539762260521, 0.0218694882948595425,
\* 0.00886323982359930006, 0.00359207910759131235, 0.00145620945432529026,
\* 0.000588041240820264097, 0.000246463134818469907,
\* 0.0000781794442939557092, 0.0000714072491382608190,
\* -0.0000185586374855275457, 0.0000259073051863633713
TanCoeff ==
    <<Dbl(1, <<1365, 5461, 5461, 5475>>, -54),
      Dbl(1, <<1092, 4369, 1091, 15994>>, -55),
      Dbl(1, <<1768, 7073, 11981, 510>>, -57),
      Dbl(1, <<1433, 3912, 4123, 5687>>, -58),
      Dbl(1, <<1161, 11838, 9658, 1171>>, -59),
      Dbl(1, <<1883, 4652, 9560, 808>>, -61),
      Dbl(1, <<1526, 15503, 15234, 789>>, -62),
      Dbl(1, <<1233, 3471, 3017, 9473>>, -63),
      Dbl(1, <<1033, 12145, 10804, 4200>>, -64),
      Dbl(1, <<1311, 10378, 222, 4774>>, -66),
      Dbl(1, <<1198, 243, 3010, 10217>>, -66),
      Dbl(-1, <<1245, 7357, 11649, 4979>>, -68),
      Dbl(1, <<1738, 9991, 4861, 15060>>, -68)>>
\* pio4 and pio4lo: pi/4 as a Number and what the rounding left off; pio2_1,
\* pio2_1t, pio2_2, pio2_2t: the first 33 bits of pi/2 and the rest, the
\* second 33 bits and the rest
PiParts ==
    [pio4 |-> Dbl(1, <<1608, 8117, 4368, 11544>>, -53),
     pio4lo |-> Dbl(1, <<1129, 8803, 3153, 7175>>, -107),
     pio2_1 |-> Dbl(1, <<1608, 8117, 4352, 0>>, -52),
     pio2_1t |-> Dbl(1, <<1069, 1553, 10633, 9009>>, -86),
     pio2_2 |-> Dbl(1, <<1069, 1553, 10624, 0>>, -86),
     pio2_2t |-> Dbl(1, <<1222, 6306, 14349, 12403>>, -121)]
\* the Numbers at which the high word of a Number reaches the values the
\* algorithms compare it with: 2^-29 and 2^66 (atan); 2^-28, 0.6744, the
\* end of the Numbers that share the high word of pi/4, the Numbers that
\* share the high word of pi/2 and the high word of 3*pi/4 (tan)
HighWordAt ==
    [tinyAtan |-> Dbl(1, <<1024, 0, 0, 0>>, -81),
     hugeAtan |-> Dbl(1, <<1024, 0, 0, 0>>, 14),
     tinyTan |-> Dbl(1, <<1024, 0, 0, 0>>, -80),
     nearPio4 |-> Dbl(1, <<1381, 640, 0, 0>>, -53),
     pastPio4 |-> Dbl(1, <<1608, 8128, 0, 0>>, -53),
     atPio2 |-> Dbl(1, <<1608, 8112, 0, 0>>, -52),
     pastPio2 |-> Dbl(1, <<1608, 8128, 0, 0>>, -52),
     past3Pio4 |-> Dbl(1, <<1206, 6080, 0, 0>>, -51)]

RECURSIVE Horner(_, _, _)
\* c[i] + w*(c[i+2] + w*(c[i+4] + ...)): every other coefficient from the
\* i-th on
Horner(c, i, w) ==
    IF i + 2 > Len(c) THEN c[i] ELSE Add(c[i], Mul(w, Horner(c, i + 2, w)))

\* a Number with the low 32 bits of its encoding set to 0
LowWordCleared(a) ==
    IF IsNum(a) THEN [a EXCEPT !.m = <<a.m[1], a.m[2] - (a.m[2] % 16), 0, 0>>]
    ELSE a

\* x*(s1 + s2) of atan, for z = x*x and w = z*z
AtanSeries(x, z, w) ==
    Mul(x, Add(Mul(z, Horner(AtanCoeff, 1, w)), Mul(w, Horner(AtanCoeff, 2, w))))
\* atan from the reduced argument x: x - x*(s1 + s2) when the argument was
\* below 7/16 (id = 0), else atanhi[id] - ((x*(s1 + s2) - atanlo[id]) - x)
AtanReduced(id, x, z) ==
    IF id = 0 THEN Sub(x, AtanSeries(x, z, Mul(z, z)))
    ELSE Sub(AtanHi[id], Sub(Sub(AtanSeries(x, z, Mul(z, z)), AtanLo[id]), x))
\* atan of a Number x >= 2^-29: the argument reduced by the range x is in
AtanAbs(x) ==
    IF Lt(x, Div(Lit(7), Lit(16))) THEN AtanReduced(0, x, Mul(x, x))
    ELSE IF Lt(x, Div(Lit(11), Lit(16)))
         THEN (LET r == Div(Sub(Mul(Lit(2), x), Lit(1)), Add(Lit(2), x))
               IN AtanReduced(1, r, Mul(r, r)))
    ELSE IF Lt(x, Div(Lit(19), Lit(16)))
         THEN (LET r == Div(Sub(x, Lit(1)), Add(x, Lit(1)))
               IN AtanReduced(2, r, Mul(r, r)))
    ELSE IF Lt(x, Div(Lit(39), Lit(16)))
         THEN (LET r == Div(Sub(x, Div(Lit(3), Lit(2))),
                            Add(Lit(1), Mul(Div(Lit(3), Lit(2)), x)))
               IN AtanReduced(3, r, Mul(r, r)))
    ELSE (LET r == Div(Lit(-1), x) IN AtanReduced(4, r, Mul(r, r)))
\* Math.atan(x)
Atan(x) ==
    IF IsNaN(x) THEN NaN
    ELSE IF Ge(Abs(x), HighWordAt.hugeAtan)
         THEN (IF x.s < 0 THEN Neg(Add(AtanHi[4], AtanLo[4]))
               ELSE Add(AtanHi[4], AtanLo[4]))
    ELSE IF Lt(Abs(x), HighWordAt.tinyAtan) THEN x
    ELSE IF x.s < 0 THEN Neg(AtanAbs(Abs(x)))
    ELSE AtanAbs(x)

\* r of __kernel_tan: y + z*(s*(r + v) + y) + T[0]*s, for z = x*x, w = z*z
\* and s = z*x
KernelTanSeries(x, y, z, w, s) ==
    Add(Add(y, Mul(z, Add(Mul(s, Add(Horner(TanCoeff, 2, w),
                                     Mul(z, Horner(TanCoeff, 3, w)))),
                          y))),
        Mul(TanCoeff[1], s))
\* -1/(x + r) computed accurately, from z = x + r with its low word cleared,
\* a = -1/(x + r) and t = a with its low word cleared
KernelTanRecip(x, r, z, a, t) ==
    Add(t, Mul(a, Add(Add(Lit(1), Mul(t, z)), Mul(t, Sub(r, Sub(z, x))))))
\* the result of __kernel_tan from r and w = x + r: tan (iy = 1) is w,
\* -1/tan (iy = -1) is -1/w; for an argument that was taken from pi/4 (near)
\* it is sgn * (iy - 2*(x - (w*w/(w + iy) - r)))
KernelTanOf(x, r, w, iy, near, sgn) ==
    IF near
    THEN Mul(Lit(sgn), Sub(Lit(iy), Mul(Lit(2), Sub(x, Sub(Div(Mul(w, w), Add(w, Lit(iy))), r)))))
    ELSE IF iy = 1 THEN w
    ELSE KernelTanRecip(x, r, LowWordCleared(w), Div(Lit(-1), w),
                        LowWordCleared(Div(Lit(-1), w)))
KernelTanAt(x, r, iy, near, sgn) == KernelTanOf(x, r, Add(x, r), iy, near, sgn)
\* __kernel_tan(x, y, iy): tan(x + y) for iy = 1 and -1/tan(x + y) for iy = -1
KernelTan(x, y, iy) ==
    IF Lt(Abs(x), HighWordAt.tinyTan)
    THEN (IF IsZero(x) /\ iy = -1 THEN PosInf
          ELSE IF iy = 1 THEN x
          ELSE KernelTanAt(x, y, iy, FALSE, 1))
    ELSE IF Ge(Abs(x), HighWordAt.nearPio4)
    THEN (LET xr == Add(Sub(PiParts.pio4, Abs(x)),
                        Sub(PiParts.pio4lo, IF x.s < 0 THEN Neg(y) ELSE y))
          IN KernelTanAt(xr, KernelTanSeries(xr, Zero, Mul(xr, xr),
                                             Mul(Mul(xr, xr), Mul(xr, xr)),
                                             Mul(Mul(xr, xr), xr)),
                         iy, TRUE, x.s))
    ELSE KernelTanAt(x, KernelTanSeries(x, y, Mul(x, x), Mul(Mul(x, x), Mul(x, x)),
                                        Mul(Mul(x, x), x)),
                     iy, FALSE, 1)
\* tan of x, pi/4 < |x| < 3*pi/4, from z = x - pi/2 (its first piece taken
\* off, p1) and the rest of pi/2 (p1t): -1/tan(y0 + y1)
TanByPio2(z, p1t) ==
    KernelTan(Sub(z, p1t), Sub(Sub(z, Sub(z, p1t)), p1t), -1)
\* Math.tan(a), for the angles Math.atan gives (|a| <= pi/2) and up to
\* 3*pi/4; sg is the sign of a, by which pi/2 is taken off
TanPast(a, sg) ==
    IF Ge(Abs(a), HighWordAt.atPio2) /\ Lt(Abs(a), HighWordAt.pastPio2)
    THEN TanByPio2(Sub(Sub(a, Mul(Lit(sg), PiParts.pio2_1)), Mul(Lit(sg), PiParts.pio2_2)),
                   Mul(Lit(sg), PiParts.pio2_2t))
    ELSE TanByPio2(Sub(a, Mul(Lit(sg), PiParts.pio2_1)), Mul(Lit(sg), PiParts.pio2_1t))
Tan(a) ==
    IF ~IsNum(a) THEN NaN
    ELSE IF Lt(Abs(a), HighWordAt.pastPio4) THEN KernelTan(a, Zero, 1)
    ELSE IF Lt(Abs(a), HighWordAt.past3Pio4) THEN TanPast(a, a.s)
    ELSE NaN

\* offx, offy, trans of the legend placement
LegendOffset(li) ==
    IF li.placement = "inside"
    THEN LET ox == Add(li.width, li.xoffset)
             oy == Add(li.height, li.yoffset)
         IN CASE li.location \in {"nw", "w", "sw"} -> [offx |-> ox, offy |-> Lit(0), trans |-> 1]
              [] li.location \in {"ne", "e", "se"} -> [offx |-> ox, offy |-> Lit(0), trans |-> -1]
              [] li.location = "n" -> [offx |-> Lit(0), offy |-> oy, trans |-> 1]
              [] li.location = "s" -> [offx |-> Lit(0), offy |-> oy, trans |-> -1]
              [] OTHER -> [offx |-> Lit(0), offy |-> Lit(0), trans |-> 1]
    ELSE [offx |-> Lit(0), offy |-> Lit(0), trans |-> 1]

\* loff, toff, roff, boff for the legend placement o
OffsetsBy(pad, o) ==
    [loff |-> IF o.trans = 1 THEN Add(pad.left, o.offx) ELSE pad.left,
     toff |-> IF o.trans = 1 THEN Add(pad.top, o.offy) ELSE pad.top,
     roff |-> IF o.trans = -1 THEN Add(pad.right, o.offx) ELSE pad.right,
     boff |-> IF o.trans = -1 THEN Add(pad.bottom, o.offy) ELSE pad.bottom]
Offsets(pad, li) == OffsetsBy(pad, LegendOffset(li))

\* the denominator of tolerance = 0.0001
TolDen == 10000
\* the cap on the iterations of one section
MaxCount == 100
\* the first err of a section
FirstErr == 999999

\* tolerance = 0.0001
Tolerance == Div(Lit(1), Lit(TolDen))

\* err > tolerance: the tolerance taken as absolute, in pixels
ExceedsToleranceAbsolute(err, len) == Gt(err, Tolerance)

\* err > this._lengths[i]*tolerance
ExceedsTolerance(err, len) == Gt(err, Mul(len, Tolerance))

\* a pass that narrows the next base by one side's taper only
SolverStepOneSide(st, base, area) ==
    LET len == Div(area, Sub(base, Mul(st.len, st.tan)))
    IN [st EXCEPT !.len = len,
                  !.err = Abs(Sub(len, st.guess)),
                  !.next = Sub(base, Mul(len, st.tan)),
                  !.guess = len,
                  !.count = st.count + 1]

\* the assignments of one pass once this._lengths[i] = len has been made
PassWith(len, st, base) ==
    [st EXCEPT !.len = len,
               !.err = Abs(Sub(len, st.guess)),
               !.next = Sub(base, Mul(Mul(Lit(2), len), st.tan)),
               !.guess = len,
               !.count = st.count + 1]

\* one pass of the body of the while loop for a section with top base `base`;
\* st holds this._lengths[i] (len), guess, err, count, what this._bases[i+1]
\* holds (next) and the value of Math.tan(this._angle) (tan)
SolverStep(st, base, area) ==
    PassWith(Div(area, Sub(base, Mul(st.len, st.tan))), st, base)

\* one trip through the while loop: its test and, when the test holds, its body
WhileTrip(st, base, area) ==
    IF ExceedsTolerance(st.err, st.len) /\ st.count < MaxCount
    THEN SolverStep(st, base, area)
    ELSE st

RECURSIVE SolveSection(_, _, _)
\* the while loop of one section, taken two trips at a time; a trip after
\* the loop has ended changes nothing
SolveSection(st, base, area) ==
    IF ExceedsTolerance(st.err, st.len) /\ st.count < MaxCount
    THEN SolveSection(WhileTrip(WhileTrip(st, base, area), base, area), base, area)
    ELSE st

\* the state of a section before its first pass: guess = areas[i]/bases[i],
\* err = 999999, lengths[i] = guess; next is what this._bases[i+1] holds
FirstGuess(guess, next, tanAngle) ==
    [len |-> guess, guess |-> guess, err |-> Lit(FirstErr), count |-> 0,
     next |-> next, tan |-> tanAngle]

\* count and err at the end of the loops of the sections from i on, after
\* those of section i
WithExit(st, rest) ==
    [exits |-> <<[count |-> st.count, err |-> st.err]>> \o rest.exits,
     lengths |-> rest.lengths, bases |-> rest.bases]

RECURSIVE SolveFrom(_, _, _, _, _)
\* section i has been solved to st: the loop goes on from section i + 1 with
\* lengths[i] and, when a pass has run, bases[i+1] as the passes left them
SolveNext(i, areas, lengths, bases, tanAngle, st) ==
    WithExit(st,
             SolveFrom(i + 1, areas, SetAt(lengths, i, st.len),
                       IF st.count = 0 THEN bases ELSE SetAt(bases, i + 1, st.next),
                       tanAngle))

\* the for loop over this._areas, from section i on; gives lengths, bases and
\* the count and err every section's loop ended with
SolveFrom(i, areas, lengths, bases, tanAngle) ==
    IF i >= Len(areas) THEN [lengths |-> lengths, bases |-> bases, exits |-> <<>>]
    ELSE SolveNext(i, areas, lengths, bases, tanAngle,
                   SolveSection(FirstGuess(Div(Get(areas, i), Get(bases, i)),
                                           Get(bases, i + 1), tanAngle),
                                Get(bases, i), Get(areas, i)))

\* the 4 corners of the entire trapezoid: p0, p1 on top, p2, p3 at the bottom,
\* for the top base b0 and the last base bn
CornersOf(off, b0, bn, length) ==
    [p0 |-> <<off.loff, off.toff>>,
     p1 |-> <<Add(off.loff, b0), off.toff>>,
     p2 |-> <<Add(off.loff, Div(Sub(b0, bn), Lit(2))), Add(off.toff, length)>>,
     p3 |-> <<Add(Add(off.loff, Div(Sub(b0, bn), Lit(2))), bn), Add(off.toff, length)>>]
Corners(off, bases, length) ==
    CornersOf(off, Get(bases, 0), Get(bases, Len(bases) - 1), length)

\* findleft, findright of draw and findedge of checkIntersection: the point of
\* the line through pa and pb at height l below pa
\* the point at height y of the line of slope m through pa: b = pa.y - m*pa.x,
\* x = (y - b)/m
PointOnLine(y, pa, m) == <<Div(Sub(y, Sub(pa[2], Mul(m, pa[1]))), m), y>>
findedge(l, pa, pb) ==
    PointOnLine(Add(l, pa[2]), pa, Div(Sub(pa[2], pb[2]), Sub(pa[1], pb[1])))
findleft(l, c) == findedge(l, c.p0, c.p2)
findright(l, c) == findedge(l, c.p1, c.p3)

\* adj before the top edge of section i of n is laid out; prev is the adj the
\* previous section left behind
TopAdj(i, n, sm, prev) ==
    LET a0 == IF i = 0 THEN Lit(0) ELSE prev
    IN IF i = 1 THEN Div(sm, Lit(3))
       ELSE IF i > 0 /\ i < n - 1 THEN Div(sm, Lit(2))
       ELSE IF i = n - 1 THEN Div(Mul(Lit(2), sm), Lit(3))
       ELSE a0

\* bottom edges moved down, into the section below, instead of up
BottomAdjOutward(i, n, sm, prev) ==
    IF i = 0 THEN Div(Mul(Lit(2), sm), Lit(3))
    ELSE IF i > 0 /\ i < n - 1 THEN Div(sm, Lit(2))
    ELSE IF i = n - 1 THEN Lit(0)
    ELSE prev

\* adj before the bottom edge of section i of n is laid out
BottomAdj(i, n, sm, prev) ==
    IF i = 0 THEN Div(Mul(Lit(-2), sm), Lit(3))
    ELSE IF i > 0 /\ i < n - 1 THEN Div(Neg(sm), Lit(2))
    ELSE IF i = n - 1 THEN Lit(0)
    ELSE prev

\* the vertices of a section whose top edge is at height yt and bottom edge
\* at height yb
SectionQuad(yt, yb, c) ==
    <<findleft(yt, c), findright(yt, c), findright(yb, c), findleft(yb, c)>>

RECURSIVE SectionVertices(_, _, _, _, _, _, _)
\* the vertices of section i, laid out from h to h2 with adj = top before its
\* top edge, and of the sections below it
SectionAndBelow(i, n, h, top, h2, lengths, sm, c) ==
    <<SectionQuad(Add(h, top), Add(h2, BottomAdj(i, n, sm, top)), c)>>
        \o SectionVertices(i + 1, n, h2, BottomAdj(i, n, sm, top), lengths, sm, c)

\* the loop that figures out the vertices of sections i .. n-1; h is the height
\* laid out so far
SectionVertices(i, n, h, adj, lengths, sm, c) ==
    IF i >= n THEN <<>>
    ELSE SectionAndBelow(i, n, h, TopAdj(i, n, sm, adj), Add(h, Get(lengths, i)),
                         lengths, sm, c)

\* the areas draw appends to this._areas
NewAreas(g, atot) == [i \in 1..Len(g) |-> Mul(g[i][2], atot)]

\* this._atot = ltot/2 * (bases[0] + bases[0]*widthRatio)
TotalArea(b0, ltot, wr) == Mul(Div(ltot, Lit(2)), Add(b0, Mul(b0, wr)))
\* this._angle = Math.atan((bases[0] - hend)/2/ltot), hend = bases[0]*widthRatio
SideAngle(b0, ltot, wr) == Atan(Div(Div(Sub(b0, Mul(b0, wr)), Lit(2)), ltot))

\* what draw has stored once the solver has run
Stored(off, ltot, atot, angle, areas, solved, sm, n) ==
    [length |-> ltot, atot |-> atot, angle |-> angle, areas |-> areas,
     lengths |-> solved.lengths, bases |-> solved.bases, exits |-> solved.exits,
     corners |-> Corners(off, solved.bases, ltot),
     vertices |-> SectionVertices(0, n, Lit(0), Lit(0), solved.lengths, sm,
                                  Corners(off, solved.bases, ltot))]

\* the solver's run over the areas, from this._bases[0] = b0
LayoutOfAreas(off, b0, ltot, atot, angle, areas, lengths0, bases0, sm, n) ==
    Stored(off, ltot, atot, angle, areas,
           SolveFrom(0, areas, lengths0, SetAt(bases0, 0, b0), Tan(angle)), sm, n)

\* the layout of an envelope b0 wide at the top and ltot long
LayoutOfEnvelope(off, b0, ltot, wr, sm, g, areas0, lengths0, bases0) ==
    LayoutOfAreas(off, b0, ltot, TotalArea(b0, ltot, wr), SideAngle(b0, ltot, wr),
                  areas0 \o NewAreas(g, TotalArea(b0, ltot, wr)), lengths0, bases0,
                  sm, Len(g))

\* the layout within the offsets: bases[0] = cw - loff - roff,
\* ltot = ch - toff - boff
LayoutWithin(off, wr, sm, g, areas0, lengths0, bases0) ==
    LayoutOfEnvelope(off, Sub(Sub(Lit(CanvasW), off.loff), off.roff),
                     Sub(Sub(Lit(CanvasH), off.toff), off.boff),
                     wr, sm, g, areas0, lengths0, bases0)

\* everything draw computes and stores, from the series fields it reads
Layout(pad, li, wr, sm, g, areas0, lengths0, bases0) ==
    LayoutWithin(Offsets(pad, li), wr, sm, g, areas0, lengths0, bases0)

draw ==
    /\ pc = "makeGridData"
    /\ pc' = "draw"
    /\ \E r \in {Layout(padding, legendInfo, widthRatio, sectionMargin, gd,
                        _areas, _lengths, _bases)} :
          /\ _length' = r.length
          /\ _atot' = r.atot
          /\ _angle' = r.angle
          /\ _areas' = r.areas
          /\ _lengths' = r.lengths
          /\ _bases' = r.bases
          /\ _vertices' = r.vertices
          /\ outcome' = [NoCall("draw") EXCEPT !.solver = r.exits]
    /\ draws' = draws + 1
    /\ triggered' = <<>>
    /\ UNCHANGED <<options, legendInfo, lastMove, data, _unorderedData, seriesOptions, _highlightedPoint,
                   gridData, gd, funnelRenderer>>

\* postDraw hook of the plot: a fresh plugin object with its highlight canvas
postPlotDraw ==
    /\ pc = "draw"
    /\ pc' = "idle"
    /\ funnelRenderer' = [defined |-> TRUE, highlightedSeriesIndex |-> UndefIdx]
    /\ triggered' = <<>>
    /\ outcome' = NoCall("postPlotDraw")
    /\ UNCHANGED <<options, legendInfo, lastMove, data, _unorderedData, seriesOptions, _highlightedPoint,
                   geometry, gridData, gd, draws>>

-----------------------------------------------------------------------------
(* The hit tester.                                                           *)

\* a section test that looks at y alone
SectionMatchesAnyX(v, i, x, y, lex, rex) ==
    /\ Ge(y, v[i + 1][1][2])
    /\ Le(y, v[i + 1][4][2])

\* the section test of checkIntersection for section i (from 0) at (x, y), with
\* the left and right edge points lex, rex
SectionMatches(v, i, x, y, lex, rex) ==
    /\ Ge(y, v[i + 1][1][2])
    /\ Le(y, v[i + 1][4][2])
    /\ Ge(x, lex[1])
    /\ Le(x, rex[1])

\* the first section that matches, or Null
RECURSIVE FirstMatch(_, _, _, _, _, _)
FirstMatch(v, i, x, y, lex, rex) ==
    IF i >= Len(v) THEN Null
    ELSE IF SectionMatches(v, i, x, y, lex, rex) THEN i
    ELSE FirstMatch(v, i + 1, x, y, lex, rex)

\* what checkIntersection returns when section i is the first to match, or
\* when none matches (i = Null)
Intersection(i, d) ==
    IF i = Null
    THEN [thrown |-> FALSE, hit |-> FALSE, sidx |-> Null, pidx |-> Null, point |-> <<>>]
    ELSE [thrown |-> FALSE, hit |-> TRUE, sidx |-> SeriesIndex, pidx |-> i,
          point |-> d[i + 1]]

\* checkIntersection(gridpos, plot) on the vertices v and data d of series 0:
\* [thrown] when reading v[0][0] throws a TypeError (v undefined or empty),
\* else [hit, sidx, pidx, point] for the returned [s.index, i, s.data[i]],
\* hit false for null
checkIntersection(gridpos, v, d) ==
    IF v = <<>>
    THEN [thrown |-> TRUE, hit |-> FALSE, sidx |-> Null, pidx |-> Null, point |-> <<>>]
    ELSE Intersection(FirstMatch(v, 0, gridpos[1], gridpos[2],
                                 findedge(gridpos[2], v[1][1], v[Len(v)][4]),
                                 findedge(gridpos[2], v[1][2], v[Len(v)][3])),
                      d)

-----------------------------------------------------------------------------
(* The mouse handlers.                                                       *)

\* pointer positions the host hands to the handlers, in pixels of the grid
\* (the canvas is 48 by 48): down the middle of the canvas, from above it to
\* below it, and beside the funnel at half height
Pointers ==
    { <<Lit(p[1]), Lit(p[2])>> :
        p \in {<<24, -1>>, <<24, 12>>, <<24, 24>>, <<24, 49>>, <<4, 24>>} }

\* an event triggered without the intersection as its data
EventWithoutData(name, ins) == [name |-> name, sidx |-> Null, pidx |-> Null,
                                point |-> <<>>]
Event(name, ins) == [name |-> name, sidx |-> ins.sidx, pidx |-> ins.pidx,
                     point |-> ins.point]
BareEvent(name) == [name |-> name, sidx |-> Null, pidx |-> Null, point |-> <<>>]

Result(call, gridpos, ins) ==
    [call |-> call, thrown |-> ins.thrown, error |-> "none", hit |-> ins.hit,
     pidx |-> ins.pidx, gridpos |-> gridpos, solver |-> <<>>]
\* a call that threw a TypeError (a property read on undefined) changes nothing
Throws(call, gridpos) ==
    /\ outcome' = [call |-> call, thrown |-> TRUE, error |-> "TypeError",
                   hit |-> FALSE, pidx |-> Null, gridpos |-> gridpos,
                   solver |-> <<>>]
    /\ triggered' = <<>>
    /\ lastMove' = NoMove
    /\ UNCHANGED <<_highlightedPoint, funnelRenderer>>

\* ins[0] == highlightedSeriesIndex && ins[1] == s._highlightedPoint
AlreadyHighlighted(ins) ==
    /\ ins.sidx = funnelRenderer.highlightedSeriesIndex
    /\ ins.pidx = _highlightedPoint

\* highlight(plot, sidx, pidx), after the events in evs
highlight(sidx, pidx, evs) ==
    /\ _highlightedPoint' = pidx
    /\ funnelRenderer' = [funnelRenderer EXCEPT !.highlightedSeriesIndex = sidx]
    /\ triggered' = evs

\* unhighlight(plot), after the events in evs
unhighlight(evs) ==
    /\ _highlightedPoint' = Null
    /\ funnelRenderer' = [funnelRenderer EXCEPT !.highlightedSeriesIndex = Null]
    /\ triggered' = evs \o <<BareEvent("jqplotDataUnhighlight")>>

\* idx != null && plot.series[idx].highlightMouseDown
MouseDownHighlighted ==
    /\ funnelRenderer.highlightedSeriesIndex \notin {Null, UndefIdx}
    /\ highlightMouseDown

handlerFrame == <<pc, options, legendInfo, data, _unorderedData, seriesOptions, geometry,
                  gridData, gd, draws>>

handleMove(gridpos) ==
    /\ pc = "idle"
    /\ \E ins \in {checkIntersection(gridpos, _vertices, data)} :
          IF ins.thrown THEN Throws("handleMove", gridpos)
          ELSE /\ outcome' = Result("handleMove", gridpos, ins)
               /\ lastMove' = [moved |-> TRUE, pidx |-> ins.pidx]
               /\ IF ins.hit
                  THEN IF highlightMouseOver /\ ~AlreadyHighlighted(ins)
                       THEN highlight(ins.sidx, ins.pidx,
                                      <<Event("jqplotDataMouseOver", ins),
                                        Event("jqplotDataHighlight", ins)>>)
                       ELSE /\ triggered' = <<Event("jqplotDataMouseOver", ins)>>
                            /\ UNCHANGED <<_highlightedPoint, funnelRenderer>>
                  ELSE unhighlight(<<>>)
    /\ UNCHANGED handlerFrame

handleMouseDown(gridpos) ==
    /\ pc = "idle"
    /\ \E ins \in {checkIntersection(gridpos, _vertices, data)} :
          IF ins.thrown THEN Throws("handleMouseDown", gridpos)
          ELSE /\ outcome' = Result("handleMouseDown", gridpos, ins)
               /\ lastMove' = NoMove
               /\ IF ins.hit /\ highlightMouseDown /\ ~AlreadyHighlighted(ins)
                  THEN highlight(ins.sidx, ins.pidx,
                                 <<Event("jqplotDataHighlight", ins)>>)
                  ELSE IF ~ins.hit THEN unhighlight(<<>>)
                  ELSE /\ triggered' = <<>>
                       /\ UNCHANGED <<_highlightedPoint, funnelRenderer>>
    /\ UNCHANGED handlerFrame

\* handleMouseUp does not read its pointer position
handleMouseUp ==
    /\ pc = "idle"
    /\ IF ~funnelRenderer.defined THEN Throws("handleMouseUp", <<>>)
       ELSE /\ outcome' = NoCall("handleMouseUp")
            /\ lastMove' = NoMove
            /\ IF MouseDownHighlighted THEN unhighlight(<<>>)
               ELSE /\ triggered' = <<>>
                    /\ UNCHANGED <<_highlightedPoint, funnelRenderer>>
    /\ UNCHANGED handlerFrame

handleClick(gridpos) ==
    /\ pc = "idle"
    /\ \E ins \in {checkIntersection(gridpos, _vertices, data)} :
          IF ins.thrown THEN Throws("handleClick", gridpos)
          ELSE /\ outcome' = Result("handleClick", gridpos, ins)
               /\ lastMove' = NoMove
               /\ triggered' = IF ins.hit THEN <<Event("jqplotDataClick", ins)>>
                               ELSE <<>>
               /\ UNCHANGED <<_highlightedPoint, funnelRenderer>>
    /\ UNCHANGED handlerFrame

\* if (intersection) trigger('jqplotDataRightClick', intersection)
RightClickEvents(ins) ==
    IF ins.hit THEN <<Event("jqplotDataRightClick", ins)>> ELSE <<>>

handleRightClick(gridpos) ==
    /\ pc = "idle"
    /\ \E ins \in {checkIntersection(gridpos, _vertices, data)} :
          IF ins.thrown THEN Throws("handleRightClick", gridpos)
          ELSE /\ outcome' = Result("handleRightClick", gridpos, ins)
               /\ lastMove' = NoMove
               /\ IF MouseDownHighlighted
                  THEN /\ _highlightedPoint' = Null
                       /\ funnelRenderer' =
                              [funnelRenderer EXCEPT !.highlightedSeriesIndex = Null]
                       /\ triggered' = <<BareEvent("jqplotDataUnhighlight")>>
                                        \o RightClickEvents(ins)
                  ELSE /\ triggered' = RightClickEvents(ins)
                       /\ UNCHANGED <<_highlightedPoint, funnelRenderer>>
    /\ UNCHANGED handlerFrame

\* the mouseout handler postInit binds on the plot target: unhighlight(plot)
mouseout ==
    /\ pc = "idle"
    /\ IF ~funnelRenderer.defined THEN Throws("mouseout", <<>>)
       ELSE /\ outcome' = NoCall("mouseout")
            /\ lastMove' = NoMove
            /\ unhighlight(<<>>)
    /\ UNCHANGED handlerFrame

-----------------------------------------------------------------------------
(* Pointer positions that probe the geometry: for every section its centroid, *)
(* the middle of its bottom edge, and its bottom right corner moved half a   *)
(* pixel to the left.                                                        *)

Centroid(q) ==
    <<Div(Add(Add(Add(q[1][1], q[2][1]), q[3][1]), q[4][1]), Lit(4)),
      Div(Add(Add(Add(q[1][2], q[2][2]), q[3][2]), q[4][2]), Lit(4))>>
SectionProbes(q) ==
    {Centroid(q),
     <<Div(Add(q[4][1], q[3][1]), Lit(2)), Div(Add(q[4][2], q[3][2]), Lit(2))>>,
     <<Sub(q[3][1], Div(Lit(1), Lit(2))), q[3][2]>>}
ProbePoints ==
    { g \in UNION { SectionProbes(_vertices[i]) : i \in 1..Len(_vertices) } :
        IsFinite(g[1]) /\ IsFinite(g[2]) }

-----------------------------------------------------------------------------
(* The specifications.                                                       *)

\* Layout: every data sequence under every width ratio and section margin
\* without padding, every data sequence with a padding and the legend inside
\* at the top, one-point funnels under every choice of the highlight
\* options, and data sequences that may hold a NaN under no options at all
\* (the defaults) or the top padding alone; the host runs the life cycle and
\* hit-tests by clicks
InitLayout ==
    \/ InitWith(DataInputs({Lit(0), Lit(1), Lit(2)}),
                UserOptions({Num(0), Num(200)}, {Lit(0), Lit(3)}, {Lit(0)}, {"unset"}, {"unset"}),
                {NoLegend})
    \/ InitWith(DataInputs({Lit(0), Lit(1), Lit(2)}),
                UserOptions({Num(0)}, {Lit(0)}, {Lit(8)}, {"unset"}, {"unset"}),
                {InsideLegend("n")})
    \/ InitWith(DataOfLen(1, {Lit(0), Lit(1), Lit(2)}),
                UserOptions({Num(200)}, {Lit(3)}, {Lit(8)},
                            {"unset", "true", "false"}, {"unset", "true", "false"}),
                {NoLegend})
    \/ InitWith(DataInputs({Lit(1), Lit(2), NaN}),
                UserOptions({Undefined}, {Undefined}, {Undefined}, {"unset"}, {"unset"}),
                {NoLegend, InsideLegend("n")})
    \/ InitWith(DataOfLen(1, {Lit(1)}),
                { [o EXCEPT !.padding.top = Lit(8)] :
                    o \in UserOptions({Undefined}, {Undefined}, {Undefined},
                                      {"unset"}, {"unset"}) },
                {NoLegend})

NextLayout ==
    \/ init
    \/ postInit
    \/ setGridData
    \/ makeGridData
    \/ draw
    \/ postPlotDraw
    \/ pc = "idle" /\ \E g \in ProbePoints : handleClick(g)

SpecLayout == InitLayout /\ [][NextLayout]_vars

\* Interaction: all the mouse handlers, on funnels of two shapes, with
\* highlighting on mouse-over (the default), on mouse-down, and off
Init ==
    InitWith(DataInputs({Lit(0), Lit(1)}),
             UserOptions({Num(0)}, {Lit(0)}, {Lit(8)}, {"unset"}, {"unset", "true"})
               \cup UserOptions({Num(200)}, {Lit(3)}, {Lit(8)}, {"unset"}, {"unset", "true"})
               \cup UserOptions({Num(200)}, {Lit(3)}, {Lit(8)}, {"false"}, {"unset"}),
             {NoLegend})

Next ==
    \/ init
    \/ postInit
    \/ setGridData
    \/ makeGridData
    \/ draw
    \/ postPlotDraw
    \/ \E g \in Pointers : handleMove(g)
    \/ \E g \in Pointers : handleMouseDown(g)
    \/ handleMouseUp
    \/ \E g \in Pointers : handleClick(g)
    \/ \E g \in Pointers : handleRightClick(g)
    \/ mouseout

Spec == Init /\ [][Next]_vars

-----------------------------------------------------------------------------
(* Properties of init.                                                       *)

\* number of occurrences of the pair p in d
Count(d, p) == Cardinality({i \in 1..Len(d) : d[i] = p})
IsPermutationOf(d, e) ==
    /\ Len(d) = Len(e)
    /\ \A i \in 1..Len(e) : Count(d, e[i]) = Count(e, e[i])
NonIncreasing(d) == \A i \in 1..(Len(d) - 1) : Ge(d[i][2], d[i + 1][2])

\* the values of d compare with one another: none is NaN or undefined
Comparable(d) == \A i \in 1..Len(d) : ~IsNaN(d[i][2])

\* C1 as stated: init turns series.data into a permutation of the input
\* ordered by non-increasing value, for any input, and keeps the input, in its
\* original order, in series._unorderedData; no later call changes either.
C1_InitSortsDescending ==
    [][/\ pc = "new" => /\ _unorderedData' = data
                        /\ IsPermutationOf(data', data)
                        /\ NonIncreasing(data')
       /\ pc # "new" => /\ data' = data
                        /\ _unorderedData' = _unorderedData]_vars

\* C1, amended: init turns series.data into a permutation of the input and
\* keeps the input, in its original order, in series._unorderedData, for any
\* input; the permutation is ordered by non-increasing value when no value
\* of the input is NaN; no later call changes either.
C1_InitSortsComparable ==
    [][/\ pc = "new" => /\ _unorderedData' = data
                        /\ IsPermutationOf(data', data)
                        /\ Comparable(data) => NonIncreasing(data')
       /\ pc # "new" => /\ data' = data
                        /\ _unorderedData' = _unorderedData]_vars

\* an input of three points given in ascending order has been reordered
C1_Witness ==
    /\ pc = "idle"
    /\ Len(data) = 3
    /\ Lt(_unorderedData[1][2], _unorderedData[2][2])
    /\ Lt(_unorderedData[2][2], _unorderedData[3][2])
    /\ data = <<_unorderedData[3], _unorderedData[2], _unorderedData[1]>>

-----------------------------------------------------------------------------
(* Properties of the layout.                                                 *)

\* a and b differ by at most a tenth of a pixel
Near(a, b) == Le(Abs(Sub(a, b)), Num(SCALE \div 10))
NearPoint(p, q) == Near(p[1], q[1]) /\ Near(p[2], q[2])
FiniteGeometry ==
    \A i \in 1..Len(_vertices) : \A j \in 1..4 :
        IsFinite(_vertices[i][j][1]) /\ IsFinite(_vertices[i][j][2])
AllPositive(d) == \A i \in 1..Len(d) : Gt(d[i][2], Lit(0))

\* C2: the one section of a one-point funnel has the four corners of the
\* envelope as its vertices, whatever the section margin (checked right after
\* the first draw of a funnel with a positive value and a positive width
\* ratio, within a tenth of a pixel).
C2_SingleSectionSpansEnvelope ==
    (/\ pc = "draw" /\ draws = 1
     /\ Len(data) = 1 /\ AllPositive(data)
     /\ Gt(widthRatio, Lit(0))) =>
        /\ Len(_vertices) = 1
        /\ LET c == Corners(Offsets(padding, legendInfo), _bases, _length)
           IN /\ NearPoint(_vertices[1][1], c.p0)
              /\ NearPoint(_vertices[1][2], c.p1)
              /\ NearPoint(_vertices[1][3], c.p3)
              /\ NearPoint(_vertices[1][4], c.p2)

\* the sum of the values is zero or negative
ZeroTotal(d) == Le(SumValues(d, Lit(0)), Lit(0))
NaNOrInfinity(a) == a.k \in {"nan", "inf"}
StoresNaNOrInfinity ==
    \/ \E i \in 1..Len(gridData) : NaNOrInfinity(gridData[i][2])
    \/ \E i \in 1..Len(gd) : NaNOrInfinity(gd[i][2])
    \/ \E i \in 1..Len(_lengths) : NaNOrInfinity(_lengths[i])
    \/ \E i \in 1..Len(_bases) : NaNOrInfinity(_bases[i])
    \/ \E i \in 1..Len(_vertices) : \E j \in 1..4 :
          NaNOrInfinity(_vertices[i][j][1]) \/ NaNOrInfinity(_vertices[i][j][2])

\* C3: when the values sum to zero or less, the layout calls end with a
\* DegenerateInputError, no geometry is produced and no weight, length, base
\* or vertex that is NaN or Infinity is ever stored.
C3_DegenerateInputRejected ==
    (pc \in {"setGridData", "makeGridData", "draw"} /\ ZeroTotal(data)) =>
        /\ outcome.error = "DegenerateInputError"
        /\ _vertices = <<>>
        /\ ~StoresNaNOrInfinity

\* C4: after every draw of a series of n points _areas has n entries, _lengths
\* n, _bases n + 1 and _vertices n, and the geometry is the geometry a first
\* draw (empty _areas, fresh _lengths and _bases) gives on the same weights,
\* options and canvas (checked on funnels whose values are all positive).
C4_DrawRecomputesGeometry ==
    (pc = "draw" /\ AllPositive(data)) =>
        LET n == Len(data)
        IN /\ Len(_areas) = n
           /\ Len(_lengths) = n
           /\ Len(_bases) = n + 1
           /\ Len(_vertices) = n
           /\ LET fresh == Layout(padding, legendInfo, widthRatio, sectionMargin, gd,
                                  <<>>, NewArray(n), NewArray(n + 1))
              IN /\ _areas = fresh.areas
                 /\ _lengths = fresh.lengths
                 /\ _bases = fresh.bases
                 /\ _vertices = fresh.vertices

-----------------------------------------------------------------------------
(* Properties of the hit tester.                                             *)

\* the x, at height y, of the line through pa and pb
LineXAt(y, pa, pb) ==
    Add(pa[1], Mul(Sub(y, pa[2]), Div(Sub(pb[1], pa[1]), Sub(pb[2], pa[2]))))
\* the left and right envelope lines: through the first section's top corners
\* and the last section's bottom corners
LeftXAt(y, v) == LineXAt(y, v[1][1], v[Len(v)][4])
RightXAt(y, v) == LineXAt(y, v[1][2], v[Len(v)][3])
TopY(v, i) == v[i][1][2]
BottomY(v, i) == v[i][4][2]
InYRange(v, i, y) == Ge(y, TopY(v, i)) /\ Le(y, BottomY(v, i))
\* the sections (counted from 0) whose y range holds the pointer, when the
\* pointer is between the envelope lines at its own height
SectionsAt(g, v) ==
    IF Ge(g[1], LeftXAt(g[2], v)) /\ Le(g[1], RightXAt(g[2], v))
    THEN {i \in 0..(Len(v) - 1) : InYRange(v, i + 1, g[2])}
    ELSE {}
MinOf(S) == CHOOSE i \in S : \A j \in S : i <= j
ExpectedHit(g, v) == IF SectionsAt(g, v) = {} THEN Null ELSE MinOf(SectionsAt(g, v))
\* the pointer is more than a tenth of a pixel away from both envelope lines
ClearOfEdges(g, v) ==
    /\ ~Near(g[1], LeftXAt(g[2], v))
    /\ ~Near(g[1], RightXAt(g[2], v))
\* the last call was a hit test by a click on the geometry of the first draw
ClickedOnFirstDraw ==
    /\ outcome.call = "handleClick"
    /\ ~outcome.thrown
    /\ draws = 1
    /\ FiniteGeometry

\* C5: checkIntersection returns the first section whose y range holds the
\* pointer when the pointer's x is between the envelope lines taken at the
\* pointer's own y, and null otherwise, for any top offset of the funnel
\* (checked for pointers clear of the envelope lines).
C5_HitTestAtPointerHeight ==
    (ClickedOnFirstDraw /\ ClearOfEdges(outcome.gridpos, _vertices)) =>
        outcome.pidx = ExpectedHit(outcome.gridpos, _vertices)

\* C6: hit-testing the centroid of the four vertices of section i gives i
\* (checked on funnels whose values are all positive).
C6_CentroidRoundTrip ==
    (ClickedOnFirstDraw /\ AllPositive(data)) =>
        \A i \in 1..Len(_vertices) :
            outcome.gridpos = Centroid(_vertices[i]) =>
                outcome.hit /\ outcome.pidx = i - 1

\* the sections (counted from 0) that satisfy the test of checkIntersection at g
MatchingSections(g, v) ==
    LET lex == findedge(g[2], v[1][1], v[Len(v)][4])
        rex == findedge(g[2], v[1][2], v[Len(v)][3])
    IN {i \in 0..(Len(v) - 1) : SectionMatches(v, i, g[1], g[2], lex, rex)}
\* some y is in the y range of section i and of section j
RangesMeet(v, i, j) ==
    /\ Le(TopY(v, i), BottomY(v, i)) /\ Le(TopY(v, j), BottomY(v, j))
    /\ Le(TopY(v, i), BottomY(v, j)) /\ Le(TopY(v, j), BottomY(v, i))
\* more than one y is in the y range of section i and of section j
RangesOverlap(v, i, j) ==
    /\ Lt(TopY(v, i), BottomY(v, i)) /\ Lt(TopY(v, j), BottomY(v, j))
    /\ Lt(TopY(v, i), BottomY(v, j)) /\ Lt(TopY(v, j), BottomY(v, i))
SectionPairs(v) == {p \in (1..Len(v)) \X (1..Len(v)) : p[1] < p[2]}
HitTestCalls == {"handleMove", "handleMouseDown", "handleClick", "handleRightClick"}
HitTested == outcome.call \in HitTestCalls /\ ~outcome.thrown

\* C7 as stated: the y ranges of the sections are pairwise disjoint for every
\* section margin, 0 included, and a pointer matches at most one section
\* (checked on funnels whose values are all positive).
C7_RangesDisjoint ==
    (pc = "idle" /\ draws >= 1 /\ AllPositive(data)) =>
        /\ \A p \in SectionPairs(_vertices) : ~RangesMeet(_vertices, p[1], p[2])
        /\ HitTested => Cardinality(MatchingSections(outcome.gridpos, _vertices)) <= 1

\* another section than the returned one matches the pointer only at the y
\* where the range of the returned section ends and its own begins
OnlyAtSharedBoundary(M, v, pidx, y) ==
    \A j \in M \ {pidx} :
        /\ j > pidx
        /\ NumEq(y, BottomY(v, pidx + 1))
        /\ NumEq(y, TopY(v, j + 1))
\* two sections whose ranges both hold y match the pointer both or neither
BothOrNeither(M, v, y) ==
    \A p \in SectionPairs(v) :
        (InYRange(v, p[1], y) /\ InYRange(v, p[2], y)) =>
            ((p[1] - 1) \in M <=> (p[2] - 1) \in M)

\* C7, amended: with a positive section margin the y ranges of the sections
\* are pairwise disjoint and the section a hit test returns is the only one
\* that matches the pointer; with a margin of 0 two ranges have at most one y
\* in common (a shared boundary), a pointer at that y matches both sections
\* or neither, and the hit test returns the upper one: any other match is a
\* lower section met at the boundary it shares with the returned one.
C7_DisjointUnlessSharedBoundary ==
    (pc = "idle" /\ draws >= 1) =>
        /\ \A p \in SectionPairs(_vertices) :
              /\ ~RangesOverlap(_vertices, p[1], p[2])
              /\ Gt(sectionMargin, Lit(0)) => ~RangesMeet(_vertices, p[1], p[2])
        /\ HitTested =>
              BothOrNeither(MatchingSections(outcome.gridpos, _vertices), _vertices,
                            outcome.gridpos[2])
        /\ (HitTested /\ outcome.hit) =>
              /\ Gt(sectionMargin, Lit(0)) =>
                     MatchingSections(outcome.gridpos, _vertices) = {outcome.pidx}
              /\ IsZero(sectionMargin) =>
                     /\ outcome.pidx \in MatchingSections(outcome.gridpos, _vertices)
                     /\ OnlyAtSharedBoundary(MatchingSections(outcome.gridpos, _vertices),
                                             _vertices, outcome.pidx, outcome.gridpos[2])

\* with a margin of 0, a click at the y two sections of positive length share
\* matches both and has returned the upper one
C7_Witness ==
    /\ ClickedOnFirstDraw
    /\ IsZero(sectionMargin)
    /\ AllPositive(data)
    /\ Len(_vertices) >= 2
    /\ outcome.hit /\ outcome.pidx = 0
    /\ NumEq(outcome.gridpos[2], BottomY(_vertices, 1))
    /\ NumEq(outcome.gridpos[2], TopY(_vertices, 2))
    /\ Lt(TopY(_vertices, 1), BottomY(_vertices, 1))
    /\ Lt(TopY(_vertices, 2), BottomY(_vertices, 2))
    /\ MatchingSections(outcome.gridpos, _vertices) = {0, 1}

-----------------------------------------------------------------------------
(* Properties of the mouse handlers.                                         *)

\* the pointer is above the first section, below the last one, or outside the
\* envelope lines at its own height
OutsideFunnel(g, v) ==
    \/ Lt(g[2], TopY(v, 1))
    \/ Gt(g[2], BottomY(v, Len(v)))
    \/ Lt(g[1], LeftXAt(g[2], v))
    \/ Gt(g[1], RightXAt(g[2], v))
PointEvents == {"jqplotDataMouseOver", "jqplotDataHighlight", "jqplotDataClick",
                "jqplotDataRightClick"}
Triggers(evs, names) == \E i \in 1..Len(evs) : evs[i].name \in names

\* C8: on computed geometry, a hit test of a pointer above the first section,
\* below the last one or outside the envelope returns null without throwing,
\* and the handler triggers no MouseOver, Highlight, Click or RightClick
\* event.
C8_OutsideReturnsNull ==
    (/\ outcome.call \in HitTestCalls
     /\ draws >= 1
     /\ OutsideFunnel(outcome.gridpos, _vertices)) =>
        /\ ~outcome.thrown
        /\ ~outcome.hit
        /\ outcome.pidx = Null
        /\ ~Triggers(triggered, PointEvents)

\* a mouse move beside the funnel, at the height of a section of finite
\* geometry, has returned null
C8_Witness ==
    /\ outcome.call = "handleMove"
    /\ draws >= 1
    /\ FiniteGeometry
    /\ InYRange(_vertices, 1, outcome.gridpos[2])
    /\ Lt(outcome.gridpos[1], LeftXAt(outcome.gridpos[2], _vertices))
    /\ ~outcome.thrown /\ ~outcome.hit

\* C9: a hit test that runs before any draw has produced vertices ends with a
\* PreconditionError and leaves the highlight state as it was.
C9_AbsentGeometryPrecondition ==
    (outcome.call \in HitTestCalls /\ draws = 0) =>
        /\ outcome.error = "PreconditionError"
        /\ _highlightedPoint = Null
        /\ funnelRenderer.highlightedSeriesIndex = UndefIdx

\* C10: 'jqplotDataUnhighlight' is triggered only by a call that starts with a
\* section highlighted; never when no section is highlighted (checked on
\* funnels whose values are all positive).
C10_UnhighlightOnlyWhenHighlighted ==
    [][(AllPositive(data) /\ Triggers(triggered', {"jqplotDataUnhighlight"})) =>
           _highlightedPoint \notin {Null, UndefIdx}]_vars

\* the step is a mouse move, over a section
Moves == outcome'.call = "handleMove" /\ ~outcome'.thrown
MovesOver == Moves /\ outcome'.hit
\* the move goes on with a run of moves over its section: the mouse event
\* before it was a move over the same section
ContinuesRun == lastMove = [moved |-> TRUE, pidx |-> outcome'.pidx]
\* the move comes into its section: the mouse event before it was a move
\* over another section or over none
ComesIn == lastMove.moved /\ lastMove.pidx # outcome'.pidx

\* C11: a mouse move over a section always triggers 'jqplotDataMouseOver';
\* with highlightMouseOver on, in a run of consecutive moves over one section
\* the move that comes into the section triggers 'jqplotDataHighlight' and
\* no later move of the run does; with highlightMouseOver off no move
\* triggers it.
C11_HighlightOncePerRun ==
    [][/\ MovesOver => Triggers(triggered', {"jqplotDataMouseOver"})
       /\ (Moves /\ ~highlightMouseOver) =>
              ~Triggers(triggered', {"jqplotDataHighlight"})
       /\ (MovesOver /\ highlightMouseOver /\ ComesIn) =>
              Triggers(triggered', {"jqplotDataHighlight"})
       /\ (MovesOver /\ highlightMouseOver /\ ContinuesRun) =>
              ~Triggers(triggered', {"jqplotDataHighlight"})]_vars

-----------------------------------------------------------------------------
(* Properties of the options.                                                *)

\* C12: after init and postInit, for every choice (unset, true, false) of the
\* user's highlightMouseOver and highlightMouseDown, the two are never both
\* true, and highlightMouseDown is true exactly when the user set it to true
\* and did not set highlightMouseOver to true.
C12_NeverBothHighlightModes ==
    pc \notin {"new", "init"} =>
        /\ ~(highlightMouseOver /\ highlightMouseDown)
        /\ highlightMouseDown <=>
              (options.highlightMouseDown = "true" /\ options.highlightMouseOver # "true")

\* the user asked for both modes; after postInit mouse-over highlighting is on
\* and mouse-down highlighting is off
C12_Witness ==
    /\ pc = "idle"
    /\ options.highlightMouseOver = "true"
    /\ options.highlightMouseDown = "true"
    /\ highlightMouseOver
    /\ ~highlightMouseDown

-----------------------------------------------------------------------------
(* Properties of the events.                                                 *)

\* the events in evs whose name is in names
EventsNamed(evs, names) == {evs[i] : i \in {j \in 1..Len(evs) : evs[j].name \in names}}

\* C13: every MouseOver, Highlight, Click and RightClick event carries the
\* series index, the index of the hit section in the descending-sorted data,
\* and the point of the sorted data at that index.
C13_EventsCarrySortedPoint ==
    \A e \in EventsNamed(triggered, PointEvents) :
        /\ e.sidx = SeriesIndex
        /\ e.pidx \in 0..(Len(data) - 1)
        /\ outcome.hit /\ e.pidx = outcome.pidx
        /\ e.pidx \in MatchingSections(outcome.gridpos, _vertices)
        /\ NonIncreasing(data)
        /\ e.point = data[e.pidx + 1]

\* a click has hit a section whose point is not the point at that index of
\* the input
C13_Witness ==
    /\ outcome.call = "handleClick"
    /\ \E e \in EventsNamed(triggered, {"jqplotDataClick"}) :
          /\ e.point = data[e.pidx + 1]
          /\ e.point # _unorderedData[e.pidx + 1]

-----------------------------------------------------------------------------
(* Properties of the weights.                                                *)

PositiveTotal(d) == Gt(SumValues(d, Lit(0)), Lit(0))
\* w holds, in the order of the sorted data, every label with its value over
\* the sum of the values; the weights do not increase and sum to 1 (within a
\* millionth)
Millionth == Mul(Num(1), Num(1))
WeightsOf(w, d) ==
    /\ Len(w) = Len(d)
    /\ \A i \in 1..Len(d) :
          /\ w[i][1] = d[i][1]
          /\ w[i][2] = Div(d[i][2], SumValues(d, Lit(0)))
    /\ NonIncreasing(w)
    /\ Le(Abs(Sub(SumValues(w, Lit(0)), Lit(1))), Millionth)

\* C14: for an input with a positive total, gridData after setGridData and
\* the result of makeGridData hold the weights value / sum of the sorted
\* data, in its order and with its labels, non-increasing and summing to 1.
C14_WeightsNormalized ==
    PositiveTotal(data) =>
        /\ pc \in {"setGridData", "makeGridData", "draw"} => WeightsOf(gridData, data)
        /\ pc \in {"makeGridData", "draw"} => WeightsOf(gd, data)

\* makeGridData has returned the weights 1/2, 1/4, 1/4 of three points that
\* init reordered
C14_Witness ==
    /\ pc = "makeGridData"
    /\ Len(gd) = 3
    /\ data # _unorderedData
    /\ gd[1][2] = Num(SCALE \div 2)
    /\ gd[2][2] = Num(SCALE \div 4)
    /\ gd[3][2] = Num(SCALE \div 4)

-----------------------------------------------------------------------------
(* Properties of the solver.                                                 *)

\* a draw has laid out the funnel and no later layout call has begun
LaidOut == pc \in {"draw", "idle"} /\ draws >= 1
\* the area of the trapezoid of section i (from 1): length times mean base
TrapezoidArea(i) ==
    Mul(_lengths[i], Div(Add(_bases[i], _bases[i + 1]), Lit(2)))

\* every section is a trapezoid of its area whose sides taper by tanAngle
TrapezoidsTaperBy(tanAngle) ==
    \A i \in 1..Len(data) :
        /\ _areas[i] = Mul(gd[i][2], _atot)
        /\ _bases[i + 1] = Sub(_bases[i], Mul(Mul(Lit(2), _lengths[i]), tanAngle))
        /\ Le(Abs(Sub(_areas[i], TrapezoidArea(i))), Div(_areas[i], Lit(1000)))

\* C15: after draw on an input with a positive total, for every section i
\* areas[i] is weights[i] times the total area, bases[i+1] is
\* bases[i] - 2 * lengths[i] * tan(angle), and areas[i] equals
\* lengths[i] * (bases[i] + bases[i+1]) / 2 within 1e-3 relative error.
C15_TrapezoidAreaRelation ==
    (LaidOut /\ PositiveTotal(data)) => TrapezoidsTaperBy(Tan(_angle))

\* the slope of the sides draw takes the angle of: (bases[0] - hend)/2/ltot
SideSlope == Div(Div(Sub(_bases[1], Mul(_bases[1], widthRatio)), Lit(2)), _length)

\* a funnel of three sections of positive area has been laid out, with sides
\* whose angle has a tangent that is not the slope the angle was taken of
C15_Witness ==
    /\ pc = "draw"
    /\ Len(data) = 3
    /\ AllPositive(data)
    /\ \A i \in 1..3 : Gt(_areas[i], Lit(0)) /\ Gt(_lengths[i], Lit(0))
    /\ Gt(_bases[1], _bases[2]) /\ Gt(_bases[2], _bases[3]) /\ Gt(_bases[3], _bases[4])
    /\ IsFinite(Tan(_angle))
    /\ ~NumEq(Tan(_angle), SideSlope)

\* the loop of section i (from 1) taken again from what draw has stored: the
\* length (len), the length before the last pass (prev), the passes made
\* (count), whether the loop's test had failed before one of them (stopped)
\* and Math.tan(this._angle) (tan)
Replayed(len, prev, count, stopped, tan) ==
    [len |-> len, prev |-> prev, count |-> count, stopped |-> stopped, tan |-> tan]
\* err > this._lengths[i]*tolerance is false, for tolerance = 0.0001
TestFails(err, len) == ~Gt(err, Mul(len, Div(Lit(1), Lit(10000))))
\* err before the next pass: 999999 before the first, then what the last
\* pass changed the length by
ErrOf(r) == IF r.count = 0 THEN Lit(999999) ELSE Abs(Sub(r.len, r.prev))
\* one more pass unless k passes have been made:
\* lengths[i] = areas[i]/(bases[i] - lengths[i]*tan)
ReplayPass(i, r, k) ==
    IF r.count >= k THEN r
    ELSE Replayed(Div(_areas[i], Sub(_bases[i], Mul(r.len, r.tan))), r.len, r.count + 1,
                  r.stopped \/ TestFails(ErrOf(r), r.len), r.tan)
RECURSIVE Replay(_, _, _)
\* the loop of section i after k passes
Replay(i, r, k) ==
    IF r.count >= k THEN r
    ELSE Replay(i, ReplayPass(i, ReplayPass(i, r, k), k), k)
\* section i after the passes draw has counted, from the first guess
\* areas[i]/bases[i]
ReplayOf(i, tanAngle) ==
    Replay(i, Replayed(Div(_areas[i], _bases[i]), Div(_areas[i], _bases[i]), 0, FALSE,
                       tanAngle),
           outcome.solver[i].count)
\* count and err of the loop of section i as draw left them, against the
\* passes r taken again
StopsAsMeant(i, exit, r) ==
    /\ exit.count \in 0..100
    /\ _lengths[i] = r.len
    /\ exit.err = ErrOf(r)
    /\ ~r.stopped
    /\ exit.count > 0 =>
           _bases[i + 1] = Sub(_bases[i], Mul(Mul(Lit(2), r.len), r.tan))
    /\ exit.count < 100 => TestFails(exit.err, _lengths[i])
    /\ (exit.count < 100 /\ IsFinite(exit.err) /\ IsFinite(_lengths[i])) =>
           Le(exit.err, Mul(_lengths[i], Div(Lit(1), Lit(10000))))
\* every section's loop, for the tangent tanAngle of the angle of the sides
EveryLoopStopsAsMeant(tanAngle) ==
    \A i \in 1..Len(_areas) :
        StopsAsMeant(i, outcome.solver[i], ReplayOf(i, tanAngle))

\* C16: on every section of _areas the solver's loop ends after at most 100
\* passes; the stored length is the length after that many passes from the
\* guess areas[i]/bases[i]; the loop ended at the first pass after which
\* |length - previous guess| <= length * 1e-4 (no earlier pass met the
\* tolerance, and a loop that ends before the cap meets it); at the cap the
\* last estimate is stored and the loop goes on to the next section; draw
\* returns without an error.
C16_SolverTerminates ==
    pc = "draw" =>
        /\ ~outcome.thrown /\ outcome.error = "none"
        /\ Len(_lengths) = Len(_areas)
        /\ Len(outcome.solver) = Len(_areas)
        /\ EveryLoopStopsAsMeant(Tan(_angle))

\* the loop of one section has met the tolerance after 2 to 99 passes and
\* the loop of another has run into the cap of 100 passes, out of tolerance
C16_Witness ==
    /\ pc = "draw"
    /\ \E i \in 1..Len(_areas) :
          /\ outcome.solver[i].count \in 2..99
          /\ IsFinite(_lengths[i])
          /\ Le(outcome.solver[i].err, Mul(_lengths[i], Div(Lit(1), Lit(10000))))
    /\ \E i \in 1..Len(_areas) :
          /\ outcome.solver[i].count = 100
          /\ IsFinite(_lengths[i])
          /\ Gt(outcome.solver[i].err, Mul(_lengths[i], Div(Lit(1), Lit(10000))))

-----------------------------------------------------------------------------
(* Properties of the section margins.                                        *)

\* the gap between section i and section i + 1 (from 1): top y of the lower
\* minus bottom y of the upper
GapBelow(v, i) == Sub(TopY(v, i + 1), BottomY(v, i))

\* C17: in a funnel of n >= 2 sections the gap between every two adjacent
\* sections equals sectionMargin, the first section's top is at the top
\* offset and the last section's bottom at the top offset plus the sum of the
\* lengths (checked on the first draw of funnels whose values are all
\* positive, within a tenth of a pixel).
C17_UniformSectionGaps ==
    (pc = "draw" /\ draws = 1 /\ Len(data) >= 2 /\ AllPositive(data)) =>
        /\ \A i \in 1..(Len(_vertices) - 1) :
              Near(GapBelow(_vertices, i), sectionMargin)
        /\ TopY(_vertices, 1) = Offsets(padding, legendInfo).toff
        /\ Near(BottomY(_vertices, Len(_vertices)),
                Add(Offsets(padding, legendInfo).toff, SumValues(
                    [i \in 1..Len(_lengths) |-> <<"", _lengths[i]>>], Lit(0))))

-----------------------------------------------------------------------------
(* Properties of the highlight state.                                        *)

\* highlighting on mouse-down: highlightMouseDown on, highlightMouseOver off
MouseDownMode == highlightMouseDown /\ ~highlightMouseOver
\* the step is an event handled to its end
HandlesEvent(calls) == outcome'.call \in calls /\ ~outcome'.thrown

\* C18: in mouse-down mode a section becomes the highlighted point only by a
\* mouse-down over it (never by a move), and after a mouse-up, a right-click
\* or a mouseout no point is highlighted.
C18_MouseDownModeHighlight ==
    [][(MouseDownMode /\ pc = "idle" /\ pc' = "idle") =>
         /\ (_highlightedPoint' # Null /\ _highlightedPoint' # _highlightedPoint) =>
                /\ HandlesEvent({"handleMouseDown"})
                /\ outcome'.hit
                /\ outcome'.pidx = _highlightedPoint'
         /\ HandlesEvent({"handleMouseUp", "handleRightClick", "mouseout"}) =>
                _highlightedPoint' = Null]_vars

\* the plugin records a highlighted series / the series records a highlighted point
IndexSet == funnelRenderer.highlightedSeriesIndex \notin {Null, UndefIdx}
PointSet == _highlightedPoint \notin {Null, UndefIdx}
\* the handlers that run the hit tester
HitTestingHandlers ==
    {"handleMove", "handleMouseDown", "handleMouseUp", "handleClick", "handleRightClick"}
\* the latest event ran the hit tester and it reported a section
ReportsSection == outcome.call \in HitTestingHandlers /\ ~outcome.thrown /\ outcome.hit
IndexMatchesPoint == IndexSet <=> PointSet
PointIsValidSection ==
    PointSet => /\ _highlightedPoint \in 0..(Len(data) - 1)
                /\ IndexSet => funnelRenderer.highlightedSeriesIndex = SeriesIndex
PointIsLastReported == (ReportsSection /\ PointSet) => _highlightedPoint = outcome.pidx

\* C19: in every state reached by events after a draw the plugin's
\* highlightedSeriesIndex is set exactly when the series' _highlightedPoint is
\* set, _highlightedPoint is a valid section index equal to the section the hit
\* tester last reported, and a click leaves the highlight state unchanged.
C19_HighlightStateConsistent ==
    [][(pc' = "idle" /\ draws' >= 1) =>
         /\ IndexMatchesPoint'
         /\ PointIsValidSection'
         /\ PointIsLastReported'
         /\ HandlesEvent({"handleClick"}) =>
                UNCHANGED <<_highlightedPoint, funnelRenderer>>]_vars

====
